---- MODULE Spec2Model ----
(***************************************************************************)
(* Model of the batch engine of smart-image-processor-mcp                  *)
(* (src/src/services/BatchProcessor.ts).                                   *)
(*                                                                         *)
(* One invocation of BatchProcessor.process or                             *)
(* BatchProcessor.processWithProgress is modelled.  JavaScript runs the    *)
(* code between two awaits without interruption, so every action below is  *)
(* one such synchronous segment:                                           *)
(*   process / processWithProgress  the call, up to the for loop           *)
(*   Dispatch      one loop iteration: slice, map(processSingle), await    *)
(*   Settle(j)     a provider promise settles and the continuations of     *)
(*                 processSingle (and of the progress wrapper) run         *)
(*   WindowSettled Promise.allSettled / Promise.all resolves, the          *)
(*                 outcomes are pushed, the delay is (or is not) started   *)
(*   Reject        Promise.all rejects, processWithProgress raises         *)
(*   Delay         the 100 ms timer fires, i += concurrency                *)
(*   Return        the loop is left, the summary is computed and returned  *)
(*   validateSources  the whole call: it has no await                      *)
(*   CallTool         the request handler of index.ts, request to answer   *)
(*   downloadWithRetry, LoadResolves, LoadRejects, BackoffElapsed          *)
(*                    the segments of ImageUtils.downloadWithRetry         *)
(* OverlappedSpec runs two invocations on one BatchProcessor, with the     *)
(* same steps taken by either of them (EnterIn, DispatchIn, SettleIn,      *)
(* WindowSettledIn, DelayIn, ReturnIn).                                    *)
(* Optional fields of JavaScript objects are sequences of length 0 or 1.   *)
(* Date.now() is a logical clock: it advances by one whenever a settlement *)
(* is observed and by 100 when the inter-window timer fires.               *)
(* concurrency is an integer, as the batch_process schema and the          *)
(* specification of the engine require.                                    *)
(***************************************************************************)
EXTENDS Integers, Sequences, FiniteSets, TLC

\* ------------------------------------------------------------------ bounds
MaxSources == 3
MaxConcurrency == 2

\* the loop never ends for concurrency <= 0: the model stops dispatching there
MaxIterations == MaxSources + 1

\* the concurrency argument: the values the tool schema allows, and the
\* values 0 and -1 that the engine does not reject
Concurrencies == {-1, 0} \cup 1..MaxConcurrency

\* ------------------------------------------------------------- input sets
\* the k-th source of a call: opaque identifiers, distinct for up to three
SourceAt(k) ==
    CASE k % 3 = 1 -> "a.png"
      [] k % 3 = 2 -> "b.png"
      [] k % 3 = 0 -> "c.png"

Operations == {"analyze", "compress", "convert", "extract_colors", "resize"}

None == <<>>

Some(v) == <<v>>

OptionsSet == {[targetFormat |-> None], [targetFormat |-> Some("webp")]}

\* onProgress as the caller passes it: no callback, one that always returns,
\* one that may raise an Error on any of its invocations
Callbacks == {"absent", "returns", "raises"}

CallbackError == [isError |-> TRUE, message |-> Some("callback failed")]

\* an Error with text
DefaultThrown == [isError |-> TRUE, message |-> Some("decode failed")]

\* what a provider may raise: an Error with text, an Error with empty text,
\* a non-Error object with a message field, a value without one
ThrownValues ==
    { DefaultThrown,
      [isError |-> TRUE,  message |-> Some("")],
      [isError |-> FALSE, message |-> Some("rejected")],
      [isError |-> FALSE, message |-> None] }

InterWindowDelay == 100

\* the number NaN, which no count, duration or percentage equals
NaN == -1

\* ------------------------------------------------------------------ state
VARIABLES
    pc,           \* position of the invocation
    mode,         \* which entry point was called
    sources, operation, options, concurrency, onProgress,   \* the arguments
    now,          \* Date.now()
    startTime,    \* const startTime of the invocation
    i,            \* loop variable
    results,      \* const results
    completed,    \* let completed (processWithProgress)
    promises,     \* batchPromises, by position in sources (1-based)
    singles,      \* history: how the promise of each processSingle call settled
    issued,       \* history: positions in the order processSingle was called
    providerCalls,\* history: the provider calls made
    events,       \* history: the arguments onProgress was invoked with
    delays,       \* history: number of inter-window timers started
    iterations,   \* history: number of loop iterations entered
    raised,       \* history: number of onProgress invocations that raised
    failure,      \* environment: what a provider of this run raises when it fails
    returned,     \* the BatchResult the call resolved with, or None
    checked,      \* the argument of validateSources
    validation,   \* what validateSources resolved with, or None
    frames,       \* two invocations on one BatchProcessor: arguments, loop
                  \* variable, promises and position of each
    locals,       \* the bindings results and completed of each activation
    toolRequest,  \* the tool name of the CallTool request, or None
    toolResponse, \* how the CallTool handler answered, or None
    invoked,      \* history: the handle methods the CallTool handler called
    download      \* the invocation of ImageUtils.downloadWithRetry

vars == <<pc, mode, sources, operation, options, concurrency, onProgress, now,
          startTime, i, results, completed, promises, singles, issued,
          providerCalls, events, delays, iterations, raised, failure, returned,
          checked, validation, frames, locals, toolRequest, toolResponse,
          invoked, download>>

frontend == <<toolRequest, toolResponse, invoked, download>>

validator == <<checked, validation>>

overlapped == <<frames, locals>>

args == <<mode, sources, operation, options, concurrency, onProgress, failure>>

\* ---------------------------------------------------------------- helpers
Min(a, b) == IF a < b THEN a ELSE b

Max(a, b) == IF a > b THEN a ELSE b

\* Array.prototype.slice index normalisation: a negative index counts from
\* the end, every index is clamped to 0..len
RelativeIndex(k, len) == IF k < 0 THEN Max(len + k, 0) ELSE Min(k, len)

\* the 0-based positions [from, to) that sources.slice(start, end) copies
SliceRange(len, start, end) ==
    [from |-> RelativeIndex(start, len), to |-> RelativeIndex(end, len)]

\* mutant of BatchPositions: the slice takes one element too many
BatchPositionsWide(len, start, c) ==
    LET r == SliceRange(len, start, start + c + 1)
    IN  {j \in 1..len : r.from < j /\ j <= r.to}

\* 1-based positions of sources that sources.slice(i, i + concurrency) holds
BatchPositions(len, start, c) ==
    LET r == SliceRange(len, start, start + c)
    IN  {j \in 1..len : r.from < j /\ j <= r.to}

\* mutant of MathRoundRatio: the quotient is truncated
MathRoundRatioTruncated(p, q) == IF q = 0 THEN NaN ELSE p \div q

\* Math.round(p / q) for integers p >= 0 and q >= 0: the nearest integer, a
\* tie going up.  The engine divides by 0 only as 0 / 0, which is NaN.
MathRoundRatio(p, q) == IF q = 0 THEN NaN ELSE (2 * p + q) \div (2 * q)

\* ascending sequence of the elements of a finite set of integers
RECURSIVE Ascending(_)
Ascending(S) ==
    IF S = {} THEN <<>>
    ELSE LET m == CHOOSE x \in S : \A y \in S : x <= y
         IN  <<m>> \o Ascending(S \ {m})

RECURSIVE SumOf(_, _)
SumOf(f, S) ==
    IF S = {} THEN 0
    ELSE LET k == CHOOSE x \in S : TRUE
         IN  f[k] + SumOf(f, S \ {k})

\* JavaScript truthiness of an optional string
Truthy(opt) == opt # None /\ opt[1] # ""

\* ------------------------------------------------------------ processSingle
SupportedOperations == {"analyze", "compress", "convert", "extract_colors"}

\* the provider the switch of processSingle selects
ProviderOf(op) ==
    CASE op = "analyze"        -> "imageAnalyzer.analyze"
      [] op = "compress"       -> "imageCompressor.compress"
      [] op = "convert"        -> "formatConverter.convert"
      [] op = "extract_colors" -> "colorExtractor.extract"

\* mutant of ValidationError: convert does not look at targetFormat
ValidationErrorUnchecked(op, opts) ==
    IF op \notin SupportedOperations
    THEN Some([isError |-> TRUE, message |-> Some("Unsupported operation: " \o op)])
    ELSE None

\* mutant of ValidationError: the message does not name the operation
ValidationErrorBare(op, opts) ==
    IF op = "convert" /\ ~Truthy(opts.targetFormat)
    THEN Some([isError |-> TRUE,
               message |-> Some("targetFormat is required for convert operation")])
    ELSE IF op \notin SupportedOperations
    THEN Some([isError |-> TRUE, message |-> Some("Unsupported operation")])
    ELSE None

\* the Error processSingle throws before any provider is called, or None
ValidationError(op, opts) ==
    IF op = "convert" /\ ~Truthy(opts.targetFormat)
    THEN Some([isError |-> TRUE,
               message |-> Some("targetFormat is required for convert operation")])
    ELSE IF op \notin SupportedOperations
    THEN Some([isError |-> TRUE, message |-> Some("Unsupported operation: " \o op)])
    ELSE None

\* mutant of ProviderCall: the provider is handed a fresh, empty options map
ProviderCallStripped(j, source, op, opts) ==
    [position |-> j, provider |-> ProviderOf(op), source |-> source,
     targetFormat |-> IF op = "convert" THEN opts.targetFormat ELSE None,
     options |-> [targetFormat |-> None]]

\* the call processSingle makes to its provider
ProviderCall(j, source, op, opts) ==
    [position |-> j, provider |-> ProviderOf(op), source |-> source,
     targetFormat |-> IF op = "convert" THEN opts.targetFormat ELSE None,
     options |-> opts]

\* the opaque payload a provider resolves with
ProviderResult(source, op) == [by |-> ProviderOf(op), of |-> source]

\* what processSingle returns when its provider resolved
SingleResult(result, start, end) == [result |-> result, processingTime |-> end - start]

\* -------------------------------------------------------------- outcomes
SuccessOutcome(source, single) ==
    [source |-> source, success |-> TRUE, result |-> Some(single.result),
     error |-> None, processingTime |-> single.processingTime]

\* mutant of FailureOutcome: a failure reports a duration
FailureOutcomeTimed(source, text) ==
    [source |-> source, success |-> FALSE, result |-> None,
     error |-> Some(text), processingTime |-> 1]

FailureOutcome(source, text) ==
    [source |-> source, success |-> FALSE, result |-> None,
     error |-> Some(text), processingTime |-> 0]

\* process: result.reason?.message || 'Unknown error'
ReasonText(reason) ==
    IF Truthy(reason.message) THEN reason.message[1] ELSE "Unknown error"

\* processWithProgress: error instanceof Error ? error.message : 'Unknown error'
CaughtText(error) ==
    IF error.isError THEN error.message[1] ELSE "Unknown error"

\* process: the body of batchResults.forEach
SettledOutcome(source, p) ==
    IF p.state = "fulfilled"
    THEN SuccessOutcome(source, p.value)
    ELSE FailureOutcome(source, ReasonText(p.reason))

\* ------------------------------------------------------------- promises
NoPromise == [state |-> "none"]

PendingPromise(start, sync) == [state |-> "pending", start |-> start, sync |-> sync]

Fulfilled(v) == [state |-> "fulfilled", value |-> v]

Rejected(r) == [state |-> "rejected", reason |-> r]

\* mutant of PromiseAllSettled: a rejection rejects the whole window
PromiseAllSettledFailFast(ps, B) ==
    IF \E j \in B : ps[j].state = "rejected" THEN "rejected"
    ELSE IF \A j \in B : ps[j].state = "fulfilled" THEN "resolved"
    ELSE "pending"

\* Promise.allSettled over the promises at positions B
PromiseAllSettled(ps, B) ==
    IF \A j \in B : ps[j].state \in {"fulfilled", "rejected"}
    THEN "resolved" ELSE "pending"

\* Promise.all over the promises at positions B
PromiseAll(ps, B) ==
    IF \E j \in B : ps[j].state = "rejected" THEN "rejected"
    ELSE IF \A j \in B : ps[j].state = "fulfilled" THEN "resolved"
    ELSE "pending"

\* -------------------------------------------------------------- progress
ProgressEvent(done, total) ==
    [completed |-> done, total |-> total,
     percentage |-> MathRoundRatio(done * 100, total)]

\* mutant of Wrapper: a success is counted but onProgress is not called
WrapperSilentSuccess(source, settled, done, total, cb, r1, r2) ==
    LET c1 == done + 1
        e1 == IF cb = "absent" THEN <<>> ELSE <<ProgressEvent(c1, total)>>
    IN  IF settled.state = "fulfilled"
        THEN [completed |-> c1, emitted |-> <<>>, raises |-> 0,
              promise |-> Fulfilled(SuccessOutcome(source, settled.value))]
        ELSE [completed |-> c1, emitted |-> e1, raises |-> 0,
              promise |-> Fulfilled(FailureOutcome(source, CaughtText(settled.reason)))]

\* mutant of Wrapper: the catch block notifies without counting the item
WrapperUncountedFailure(source, settled, done, total, cb, r1, r2) ==
    LET c1 == IF settled.state = "fulfilled" THEN done + 1 ELSE done
        e1 == IF cb = "absent" THEN <<>> ELSE <<ProgressEvent(c1, total)>>
    IN  [completed |-> c1, emitted |-> e1, raises |-> 0,
         promise |-> IF settled.state = "fulfilled"
                     THEN Fulfilled(SuccessOutcome(source, settled.value))
                     ELSE Fulfilled(FailureOutcome(source, CaughtText(settled.reason)))]

\* The continuation of the async arrow function of processWithProgress once
\* processSingle has settled.  settled is Fulfilled(single) or Rejected(error);
\* r1 and r2 say whether the first and the second invocation of onProgress
\* raise.  A raise inside the try block is caught by the catch block, which
\* counts and notifies again; a raise inside the catch block rejects the
\* promise.
Wrapper(source, settled, done, total, cb, r1, r2) ==
    LET c1 == done + 1
        e1 == IF cb = "absent" THEN <<>> ELSE <<ProgressEvent(c1, total)>>
        c2 == c1 + 1
        e2 == e1 \o <<ProgressEvent(c2, total)>>
    IN  IF settled.state = "fulfilled"
        THEN IF ~r1
             THEN [completed |-> c1, emitted |-> e1, raises |-> 0,
                   promise |-> Fulfilled(SuccessOutcome(source, settled.value))]
             ELSE IF ~r2
             THEN [completed |-> c2, emitted |-> e2, raises |-> 1,
                   promise |-> Fulfilled(FailureOutcome(source, CaughtText(CallbackError)))]
             ELSE [completed |-> c2, emitted |-> e2, raises |-> 2,
                   promise |-> Rejected(CallbackError)]
        ELSE IF ~r1
             THEN [completed |-> c1, emitted |-> e1, raises |-> 0,
                   promise |-> Fulfilled(FailureOutcome(source, CaughtText(settled.reason)))]
             ELSE [completed |-> c1, emitted |-> e1, raises |-> 1,
                   promise |-> Rejected(CallbackError)]

\* ------------------------------------------------------------ aggregation
\* mutant of Summary: failed counts every outcome
SummaryFailedAll(res, totalTime) ==
    LET ok == {k \in 1..Len(res) : res[k].success}
    IN  [totalProcessed |-> Len(res),
         successful     |-> Cardinality(ok),
         failed         |-> Len(res),
         results        |-> res,
         summary        |-> [totalTime   |-> totalTime,
                             averageTime |-> 0,
                             successRate |-> MathRoundRatio(Cardinality(ok) * 100, Len(res))]]

\* mutant of Summary: totalProcessed counts the successes only
SummaryCountingSuccesses(res, totalTime) ==
    LET ok == {k \in 1..Len(res) : res[k].success}
    IN  [totalProcessed |-> Cardinality(ok),
         successful     |-> Cardinality(ok),
         failed         |-> Len(res) - Cardinality(ok),
         results        |-> res,
         summary        |-> [totalTime   |-> totalTime,
                             averageTime |-> 0,
                             successRate |-> MathRoundRatio(Cardinality(ok) * 100, Len(res))]]

\* mutant of Summary: the average is taken over every outcome
SummaryAveragingAll(res, totalTime) ==
    LET ok == {k \in 1..Len(res) : res[k].success}
        times == [k \in 1..Len(res) |-> res[k].processingTime]
    IN  [totalProcessed |-> Len(res),
         successful     |-> Cardinality(ok),
         failed         |-> Len(res) - Cardinality(ok),
         results        |-> res,
         summary        |-> [totalTime   |-> totalTime,
                             averageTime |-> IF Cardinality(ok) > 0
                                             THEN MathRoundRatio(SumOf(times, ok), Len(res))
                                             ELSE 0,
                             successRate |-> MathRoundRatio(Cardinality(ok) * 100, Len(res))]]

Summary(res, totalTime) ==
    LET ok         == {k \in 1..Len(res) : res[k].success}
        successful == Cardinality(ok)
        failed     == Len(res) - successful
        times      == [k \in 1..Len(res) |-> res[k].processingTime]
        average    == IF successful > 0
                      THEN MathRoundRatio(SumOf(times, ok), successful)
                      ELSE 0
    IN  [totalProcessed |-> Len(res),
         successful     |-> successful,
         failed         |-> failed,
         results        |-> res,
         summary        |-> [totalTime   |-> totalTime,
                             averageTime |-> average,
                             successRate |-> MathRoundRatio(successful * 100, Len(res))]]

\* --------------------------------------------------------- validateSources
\* A JavaScript string is the sequence of its characters; an array element
\* that is not a string is the number 42.
Str(cs) == [type |-> "string", chars |-> cs]

NotAString == [type |-> "number", chars |-> <<>>]

Http == <<"h", "t", "t", "p", ":", "/", "/">>

Https == <<"h", "t", "t", "p", "s", ":", "/", "/">>

DataImage == <<"d", "a", "t", "a", ":", "i", "m", "a", "g", "e", "/">>

\* the alternatives of the regular expression, in its order
ImageExtensions ==
    { <<"j", "p", "g">>, <<"j", "p", "e", "g">>, <<"p", "n", "g">>,
      <<"g", "i", "f">>, <<"b", "m", "p">>, <<"w", "e", "b", "p">>,
      <<"a", "v", "i", "f">>, <<"t", "i", "f", "f">> }

\* the lower-case form of a character of the alphabet of the inputs
LowerOf(c) ==
    CASE c = "A" -> "a" [] c = "G" -> "g" [] c = "H" -> "h" [] c = "J" -> "j"
      [] c = "N" -> "n" [] c = "P" -> "p" [] c = "T" -> "t" [] OTHER -> c

\* String.prototype.startsWith
StartsWith(cs, prefix) ==
    /\ Len(cs) >= Len(prefix)
    /\ \A k \in 1..Len(prefix) : cs[k] = prefix[k]

\* String.prototype.includes, for one character
Includes(cs, c) == \E k \in 1..Len(cs) : cs[k] = c

\* the string without its trailing spaces
RECURSIVE TrimEnd(_)
TrimEnd(cs) ==
    IF cs # <<>> /\ cs[Len(cs)] = " " THEN TrimEnd(SubSeq(cs, 1, Len(cs) - 1))
    ELSE cs

\* the string without its leading slashes
RECURSIVE SkipSlashes(_)
SkipSlashes(cs) ==
    IF cs # <<>> /\ Head(cs) = "/" THEN SkipSlashes(Tail(cs)) ELSE cs

\* the characters before the first "/"
RECURSIVE UpToSlash(_)
UpToSlash(cs) ==
    IF cs = <<>> \/ Head(cs) = "/" THEN <<>>
    ELSE <<Head(cs)>> \o UpToSlash(Tail(cs))

\* Whether new URL(source) succeeds for a source that starts with http:// or
\* https://, on the alphabet of the inputs (letters, digits, ".", "/", " ",
\* ";", ","): the parser drops trailing spaces, skips the slashes after the
\* scheme and takes the host up to the next "/"; it fails when the host is
\* empty or holds a space.
UrlParses(cs) ==
    LET scheme == IF StartsWith(cs, Https) THEN Https ELSE Http
        rest   == SubSeq(TrimEnd(cs), Len(scheme) - 1, Len(TrimEnd(cs)))
        host   == UpToSlash(SkipSlashes(rest))
    IN  host # <<>> /\ ~Includes(host, " ")

\* mutant of ExtensionTest: the test distinguishes upper and lower case
ExtensionTestCaseSensitive(cs) ==
    \E ext \in ImageExtensions :
        /\ Len(cs) >= Len(ext) + 1
        /\ cs[Len(cs) - Len(ext)] = "."
        /\ \A k \in 1..Len(ext) : cs[Len(cs) - Len(ext) + k] = ext[k]

\* /\.(jpg|jpeg|png|gif|bmp|webp|avif|tiff)$/i.test(source)
ExtensionTest(cs) ==
    \E ext \in ImageExtensions :
        /\ Len(cs) >= Len(ext) + 1
        /\ cs[Len(cs) - Len(ext)] = "."
        /\ \A k \in 1..Len(ext) : LowerOf(cs[Len(cs) - Len(ext) + k]) = ext[k]

\* isValidSource: "true", "false", or "throws" when source.startsWith is not
\* a function
isValidSource(source) ==
    IF source.type # "string" THEN "throws"
    ELSE IF StartsWith(source.chars, Http) \/ StartsWith(source.chars, Https)
    THEN (IF UrlParses(source.chars) THEN "true" ELSE "false")
    ELSE IF StartsWith(source.chars, DataImage) THEN "true"
    ELSE IF Includes(source.chars, ".") /\ ExtensionTest(source.chars) THEN "true"
    ELSE "false"

\* mutant of ValidateStep: an element whose check raises is skipped
ValidateStepSkipping(lists, source) ==
    IF isValidSource(source) = "true"
    THEN [lists EXCEPT !.valid = Append(@, source)]
    ELSE IF isValidSource(source) = "false"
    THEN [lists EXCEPT !.invalid = Append(@, source)]
    ELSE lists

\* the body of the for loop of validateSources: try, if/else, catch
ValidateStep(lists, source) ==
    IF isValidSource(source) = "true"
    THEN [lists EXCEPT !.valid = Append(@, source)]
    ELSE [lists EXCEPT !.invalid = Append(@, source)]

\* the for loop of validateSources
RECURSIVE ValidateLoop(_, _)
ValidateLoop(lists, rest) ==
    IF rest = <<>> THEN lists
    ELSE ValidateLoop(ValidateStep(lists, Head(rest)), Tail(rest))

\* the sources of the validator scenarios
HttpsUrlJpg == Str(Https \o <<"a", ".", "b", "/", "x", ".", "j", "p", "g">>)

NotAUrl == Str(<<"n", "o", "t", " ", "a", " ", "u", "r", "l">>)

DataImagePng ==
    Str(DataImage \o <<"p", "n", "g", ";", "b", "a", "s", "e", "6", "4", ",",
                       "A", "A", "A", "A">>)

PhotoPng == Str(<<"p", "h", "o", "t", "o", ".", "p", "n", "g">>)

PhotoTxt == Str(<<"p", "h", "o", "t", "o", ".", "t", "x", "t">>)

SampleSources == {HttpsUrlJpg, NotAUrl, DataImagePng, PhotoPng, PhotoTxt, NotAString}

\* the strings prefix + stem + suffix
SourcePrefixes ==
    { <<>>, Http, Https, DataImage, <<"H", "T", "T", "P", ":", "/", "/">>,
      <<"d", "a", "t", "a", ":">> }

SourceStems == { <<"a">>, <<"a", " ", "b">> }

SourceSuffixes ==
    { <<>>, <<".">>, <<"j", "p", "g">>, <<".", "t", "x", "t">>,
      <<".", "j", "p", "g", "/", "t">>, <<".", "J", "P", "G">>,
      <<".", "P", "n", "g">>, <<".", "j", "p", "g", " ">> }
    \cup { <<".">> \o ext : ext \in ImageExtensions }

GeneratedSources ==
    { Str(prefix \o stem \o suffix) :
        prefix \in SourcePrefixes, stem \in SourceStems, suffix \in SourceSuffixes }
    \cup { Str(Http), Str(Https), Str(Https \o <<"/">>), Str(<<>>) }

RECURSIVE ListsOver(_, _)
ListsOver(S, n) ==
    IF n = 0 THEN {<<>>}
    ELSE LET shorter == ListsOver(S, n - 1)
         IN  shorter \cup {Append(l, e) : l \in {x \in shorter : Len(x) = n - 1}, e \in S}

\* the arrays validateSources is called with: every generated string on its
\* own, and every array of up to MaxSources scenario sources
CheckedLists ==
    { <<e>> : e \in GeneratedSources } \cup ListsOver(SampleSources, MaxSources)

\* ------------------------------------------------ overlapping invocations
\* Two calls on the same BatchProcessor, the first one made being 1.  Each has
\* its own arguments, loop variable and promises; Date.now() is the one clock.
Invocations == {1, 2}

MaxOverlapped == 2

IdleFrame ==
    [pc |-> "idle", mode |-> "none", sources |-> <<>>, concurrency |-> 0,
     onProgress |-> "absent", startTime |-> 0, i |-> 0, promises |-> <<>>,
     singles |-> <<>>, events |-> <<>>, returned |-> None]

\* const results = [] and let completed = 0
NoLocals == [results |-> <<>>, completed |-> 0]

\* mutant of ActivationOf: results and completed live on the processor
ActivationShared(r) == 1

\* the activation that holds the bindings results and completed invocation r
\* reads and writes: they are declared in the function body, so each call
\* has its own
ActivationOf(r) == r

\* the operation, the options and the raised value of the overlapping calls
OverlappedOperation == "analyze"

OverlappedOptions == [targetFormat |-> None]

\* the sources of invocation r: the first call is given up to MaxOverlapped
\* sources, the second one the list [c.png, a.png] or a prefix of it
OverlappedSources(r) ==
    IF r = 1 THEN {[k \in 1..n |-> SourceAt(k)] : n \in 0..MaxOverlapped}
    ELSE {[k \in 1..n |-> SourceAt(k + 2)] : n \in 0..2}

\* the concurrency of invocation r
OverlappedConcurrencies(r) == IF r = 1 THEN 1..MaxOverlapped ELSE {1, 2}

BatchOf(f) == BatchPositions(Len(f.sources), f.i, f.concurrency)

AwaitedOf(f) ==
    IF f.mode = "process" THEN PromiseAllSettled(f.promises, BatchOf(f))
    ELSE PromiseAll(f.promises, BatchOf(f))

OutcomesOf(f) ==
    LET order == Ascending(BatchOf(f))
    IN  [k \in 1..Len(order) |->
           IF f.mode = "process"
           THEN SettledOutcome(f.sources[order[k]], f.promises[order[k]])
           ELSE f.promises[order[k]].value]

\* ------------------------------------------------------- CallTool handler
\* the tools the switch of the CallTool handler knows
ToolNames ==
    {"analyze_image", "compress_image", "convert_format", "extract_colors",
     "batch_process"}

\* the tool names of the requests: the known ones and three others
RequestedNames == ToolNames \cup {"resize_image", "batchProcess", ""}

\* the handle method a case of the switch awaits
HandlerOf(name) ==
    CASE name = "analyze_image"  -> "handleAnalyzeImage"
      [] name = "compress_image" -> "handleCompressImage"
      [] name = "convert_format" -> "handleConvertFormat"
      [] name = "extract_colors" -> "handleExtractColors"
      [] name = "batch_process"  -> "handleBatchProcess"

\* what a handle method does: it returns its content or raises
HandlerOutcomes == {"returns", "raises"}

ToolResult(name) == [type |-> "result", code |-> "none", cause |-> HandlerOf(name)]

HandlerError(name) == [type |-> "Error", code |-> "none", cause |-> HandlerOf(name)]

\* the default branch: throw new McpError(ErrorCode.MethodNotFound, ...)
UnknownToolError(name) ==
    [type |-> "McpError", code |-> "MethodNotFound", cause |-> name]

\* the catch block around the switch: every error thrown inside the try,
\* the one of the default branch included, is replaced by a new McpError
\* with ErrorCode.InternalError whose text quotes the message of the error
CaughtToolError(error) ==
    [type |-> "McpError", code |-> "InternalError", cause |-> error]

\* --------------------------------------------------------- downloadWithRetry
MaxRetries == 3

NoDownload ==
    [pc |-> "idle", maxRetries |-> 0, attempt |-> 0, loads |-> <<>>,
     waits |-> <<>>, lastError |-> None, outcome |-> None]

\* what loadFromUrl may reject with: two Errors and a string
LoadErrors ==
    { [isError |-> TRUE,  text |-> "ECONNRESET"],
      [isError |-> TRUE,  text |-> "timeout of 30000ms exceeded"],
      [isError |-> FALSE, text |-> "socket hang up"] }

\* error instanceof Error ? error : new Error(String(error))
AsError(error) == [isError |-> TRUE, text |-> error.text]

RECURSIVE Pow2(_)
Pow2(n) == IF n = 0 THEN 1 ELSE 2 * Pow2(n - 1)

\* mutant of BackoffDelay: the delay grows linearly
BackoffDelayLinear(attempt) == attempt * 1000

\* Math.pow(2, attempt) * 1000
BackoffDelay(attempt) == Pow2(attempt) * 1000

\* the text of the Error thrown after the loop
DownloadFailure(maxRetries, lastError) ==
    IF lastError = None
    THEN [raised |-> "TypeError",
          message |-> "Cannot read properties of undefined (reading 'message')"]
    ELSE [raised |-> "Error",
          message |-> "Failed to download after " \o ToString(maxRetries)
                      \o " attempts: " \o lastError[1].text]

\* The top of the for loop with the loop variable at d.attempt: the next
\* call of loadFromUrl is made, or the loop is left and the Error is thrown.
LoopTop(d) ==
    IF d.attempt <= d.maxRetries
    THEN [d EXCEPT !.pc = "loading",
                   !.loads = Append(@, [state |-> "pending"])]
    ELSE [d EXCEPT !.pc = "raised",
                   !.outcome = Some(DownloadFailure(d.maxRetries, d.lastError))]

\* ---------------------------------------------------------------- actions
Init ==
    /\ pc = "idle"
    /\ mode = "none"
    /\ sources = <<>>
    /\ operation = ""
    /\ options = [targetFormat |-> None]
    /\ concurrency = 0
    /\ onProgress = "absent"
    /\ now = 0
    /\ startTime = 0
    /\ i = 0
    /\ results = <<>>
    /\ completed = 0
    /\ promises = <<>>
    /\ singles = <<>>
    /\ issued = <<>>
    /\ providerCalls = <<>>
    /\ events = <<>>
    /\ delays = 0
    /\ iterations = 0
    /\ raised = 0
    /\ failure = CHOOSE e \in ThrownValues : TRUE
    /\ returned = None
    /\ checked = <<>>
    /\ validation = None
    /\ frames = [r \in Invocations |-> IdleFrame]
    /\ locals = [r \in Invocations |-> NoLocals]
    /\ toolRequest = None
    /\ toolResponse = None
    /\ invoked = <<>>
    /\ download = NoDownload

\* the setup both entry points share: startTime, results, the loop variable
Enter(md, srcs, op, opts, c, cb, thrown) ==
    /\ pc = "idle"
    /\ pc' = "loop"
    /\ mode' = md
    /\ sources' = srcs
    /\ operation' = op
    /\ options' = opts
    /\ concurrency' = c
    /\ onProgress' = cb
    /\ failure' = thrown
    /\ startTime' = now
    /\ results' = <<>>
    /\ completed' = 0
    /\ i' = 0
    /\ promises' = [j \in 1..Len(srcs) |-> NoPromise]
    /\ singles' = [j \in 1..Len(srcs) |-> NoPromise]
    /\ UNCHANGED <<frontend, overlapped, validator, now, issued, providerCalls, events, delays, iterations,
                   raised, returned>>

process(srcs, op, opts, c, thrown) ==
    Enter("process", srcs, op, opts, c, "absent", thrown)

processWithProgress(srcs, op, opts, c, cb, thrown) ==
    Enter("processWithProgress", srcs, op, opts, c, cb, thrown)

\* the positions of the window the loop is at
Batch == BatchPositions(Len(sources), i, concurrency)

\* the promise batch.map leaves at position j: processSingle has run up to its
\* first await (the provider call) or has thrown before it
MappedPromise(md, op, opts, start) ==
    LET invalid == ValidationError(op, opts)
    IN  IF invalid = None THEN PendingPromise(start, None)
        ELSE IF md = "process" THEN Rejected(invalid[1])
        ELSE PendingPromise(start, invalid)

\* the promise processSingle returns: pending on its provider, or rejected
SinglePromise(op, opts, start) ==
    LET invalid == ValidationError(op, opts)
    IN  IF invalid = None THEN PendingPromise(start, None) ELSE Rejected(invalid[1])

\* mutant of WindowCalls: every provider call is made a second time
WindowCallsRetried(order) ==
    IF ValidationError(operation, options) # None THEN <<>>
    ELSE [k \in 1..(2 * Len(order)) |->
            ProviderCall(order[((k - 1) % Len(order)) + 1],
                         sources[order[((k - 1) % Len(order)) + 1]],
                         operation, options)]

\* the provider calls one window makes, in the order batch.map makes them
WindowCalls(order) ==
    IF ValidationError(operation, options) # None THEN <<>>
    ELSE [k \in 1..Len(order) |->
            ProviderCall(order[k], sources[order[k]], operation, options)]

\* mutant of Dispatch: the window is mapped from its last source to its first
DispatchBackwards ==
    /\ pc = "loop"
    /\ i < Len(sources)
    /\ iterations < MaxIterations
    /\ LET up    == Ascending(Batch)
           order == [k \in 1..Len(up) |-> up[Len(up) + 1 - k]]
       IN  /\ promises' = [j \in 1..Len(sources) |->
                             IF j \in Batch
                             THEN MappedPromise(mode, operation, options, now)
                             ELSE promises[j]]
           /\ singles' = [j \in 1..Len(sources) |->
                            IF j \in Batch
                            THEN SinglePromise(operation, options, now)
                            ELSE singles[j]]
           /\ issued' = issued \o order
           /\ providerCalls' = providerCalls \o WindowCalls(order)
    /\ iterations' = iterations + 1
    /\ pc' = "await"
    /\ UNCHANGED <<frontend, overlapped, validator, args, now, startTime, i, results, completed, events, delays,
                   raised, returned>>

Dispatch ==
    /\ pc = "loop"
    /\ i < Len(sources)
    /\ iterations < MaxIterations
    /\ LET order == Ascending(Batch)
       IN  /\ promises' = [j \in 1..Len(sources) |->
                             IF j \in Batch
                             THEN MappedPromise(mode, operation, options, now)
                             ELSE promises[j]]
           /\ singles' = [j \in 1..Len(sources) |->
                            IF j \in Batch
                            THEN SinglePromise(operation, options, now)
                            ELSE singles[j]]
           /\ issued' = issued \o order
           /\ providerCalls' = providerCalls \o WindowCalls(order)
    /\ iterations' = iterations + 1
    /\ pc' = "await"
    /\ UNCHANGED <<frontend, overlapped, validator, args, now, startTime, i, results, completed, events, delays,
                   raised, returned>>

\* how the promise processSingle returned for position j may settle at time t
Settlements(j, t) ==
    IF promises[j].sync # None
    THEN {Rejected(promises[j].sync[1])}
    ELSE {Fulfilled(SingleResult(ProviderResult(sources[j], operation),
                                 promises[j].start, t))}
         \cup {Rejected(failure)}

Settle(j) ==
    /\ pc \in {"await", "rejected"}
    /\ promises[j].state = "pending"
    \* continuations of promises that are already rejected run in call order
    /\ promises[j].sync # None =>
          \A k \in 1..(j - 1) : promises[k].state # "pending"
    \* logical clock: Date.now() has advanced by one when a settlement is observed
    /\ now' = now + 1
    /\ \E settled \in Settlements(j, now + 1) :
         /\ singles' = [singles EXCEPT ![j] = settled]
         /\ IF mode = "process"
            THEN /\ promises' = [promises EXCEPT ![j] = settled]
                 /\ UNCHANGED <<completed, events, raised>>
            ELSE \E r1 \in (IF onProgress = "raises" THEN BOOLEAN ELSE {FALSE}) :
                 \E r2 \in (IF r1 /\ settled.state = "fulfilled"
                            THEN BOOLEAN ELSE {FALSE}) :
                   LET w == Wrapper(sources[j], settled, completed,
                                    Len(sources), onProgress, r1, r2)
                   IN  /\ promises' = [promises EXCEPT ![j] = w.promise]
                       /\ completed' = w.completed
                       /\ events' = events \o w.emitted
                       /\ raised' = raised + w.raises
    /\ UNCHANGED <<frontend, overlapped, validator, pc, args, startTime, i, results, issued, providerCalls,
                   delays, iterations, returned>>

\* what the await of the window resolves to
Awaited ==
    IF mode = "process" THEN PromiseAllSettled(promises, Batch)
    ELSE PromiseAll(promises, Batch)

\* mutant of WindowOutcomes: the outcomes are pushed last to first
WindowOutcomesReversed ==
    LET order == Ascending(Batch)
        n     == Len(order)
    IN  [k \in 1..n |->
           IF mode = "process"
           THEN SettledOutcome(sources[order[n + 1 - k]], promises[order[n + 1 - k]])
           ELSE promises[order[n + 1 - k]].value]

\* mutant of WindowOutcomes: only the first outcome of the window is pushed
WindowOutcomesFirstOnly ==
    LET order == Ascending(Batch)
    IN  [k \in 1..Min(1, Len(order)) |->
           IF mode = "process"
           THEN SettledOutcome(sources[order[k]], promises[order[k]])
           ELSE promises[order[k]].value]

\* the outcomes the window appends to results
WindowOutcomes ==
    LET order == Ascending(Batch)
    IN  [k \in 1..Len(order) |->
           IF mode = "process"
           THEN SettledOutcome(sources[order[k]], promises[order[k]])
           ELSE promises[order[k]].value]

\* mutant of NextIndex: the loop steps one short of a window
NextIndexShort(k, c) == k + c - 1

\* mutant of NextIndex: the loop variable is never advanced
NextIndexStuck(k, c) == k

\* the loop increment i += concurrency
NextIndex(k, c) == k + c

\* mutant of WindowSettled: the timer is started after every window
WindowSettledAlwaysDelays ==
    /\ pc = "await"
    /\ Awaited = "resolved"
    /\ results' = results \o WindowOutcomes
    /\ pc' = "delay"
    /\ delays' = delays + 1
    /\ UNCHANGED <<frontend, overlapped, validator, args, now, startTime, i, completed,
                   promises, singles, issued, providerCalls, events, iterations,
                   raised, returned>>

WindowSettled ==
    /\ pc = "await"
    /\ Awaited = "resolved"
    /\ results' = results \o WindowOutcomes
    /\ IF i + concurrency < Len(sources)
       THEN /\ pc' = "delay"
            /\ delays' = delays + 1
            /\ UNCHANGED i
       ELSE /\ pc' = "loop"
            /\ i' = NextIndex(i, concurrency)
            /\ UNCHANGED delays
    /\ UNCHANGED <<frontend, overlapped, validator, args, now, startTime, completed, promises, singles,
                   issued, providerCalls, events, iterations, raised, returned>>

\* Promise.all rejects: the await throws out of processWithProgress
Reject ==
    /\ pc = "await"
    /\ Awaited = "rejected"
    /\ pc' = "rejected"
    /\ UNCHANGED <<frontend, overlapped, validator, args, now, startTime, i, results, completed, promises,
                   singles, issued, providerCalls, events, delays, iterations,
                   raised, returned>>

\* mutant of Delay: the loop goes on without waiting for the timer
DelayUntimed ==
    /\ pc = "delay"
    /\ now' = now
    /\ i' = NextIndex(i, concurrency)
    /\ pc' = "loop"
    /\ UNCHANGED <<frontend, overlapped, validator, args, startTime, results, completed, promises, singles,
                   issued, providerCalls, events, delays, iterations, raised,
                   returned>>

Delay ==
    /\ pc = "delay"
    /\ now' = now + InterWindowDelay
    /\ i' = NextIndex(i, concurrency)
    /\ pc' = "loop"
    /\ UNCHANGED <<frontend, overlapped, validator, args, startTime, results, completed, promises, singles,
                   issued, providerCalls, events, delays, iterations, raised,
                   returned>>

Return ==
    /\ pc = "loop"
    /\ ~(i < Len(sources))
    /\ returned' = Some(Summary(results, now - startTime))
    /\ pc' = "returned"
    /\ UNCHANGED <<frontend, overlapped, validator, args, now, startTime, i, results, completed, promises,
                   singles, issued, providerCalls, events, delays, iterations,
                   raised>>

\* validateSources has no await: the call runs to its return in one step
validateSources(srcs) ==
    /\ pc = "idle"
    /\ pc' = "validated"
    /\ checked' = srcs
    /\ validation' = Some(ValidateLoop([valid |-> <<>>, invalid |-> <<>>], srcs))
    /\ UNCHANGED <<frontend, overlapped, args, now, startTime, i, results,
                   completed, promises, singles, issued, providerCalls, events,
                   delays, iterations, raised, returned>>

\* ---------------------------------------------- actions of the front end
batch == <<args, now, startTime, i, results, completed, promises, singles,
           issued, providerCalls, events, delays, iterations, raised, returned>>

\* the CallTool request handler, from the request to its answer
CallTool(name, outcome) ==
    /\ pc = "idle"
    /\ pc' = "answered"
    /\ toolRequest' = Some(name)
    /\ IF name \in ToolNames
       THEN /\ invoked' = <<HandlerOf(name)>>
            /\ toolResponse' = Some(IF outcome = "returns"
                                    THEN ToolResult(name)
                                    ELSE CaughtToolError(HandlerError(name)))
       ELSE /\ invoked' = <<>>
            /\ toolResponse' = Some(CaughtToolError(UnknownToolError(name)))
    /\ UNCHANGED <<batch, validator, overlapped, download>>

\* the call, up to the first await (or to the throw when the loop is empty)
downloadWithRetry(maxRetries) ==
    /\ pc = "idle"
    /\ pc' = "download"
    /\ download' = LoopTop([NoDownload EXCEPT !.maxRetries = maxRetries,
                                              !.attempt = 1])
    /\ UNCHANGED <<batch, validator, overlapped, toolRequest, toolResponse,
                   invoked>>

\* loadFromUrl resolves: return await this.loadFromUrl(url)
LoadResolves ==
    /\ pc = "download"
    /\ download.pc = "loading"
    /\ download' = [download EXCEPT
          !.pc = "returned",
          !.loads[Len(download.loads)] = [state |-> "resolved"],
          !.outcome = Some([returned |-> "Buffer",
                            attempt |-> download.attempt])]
    /\ UNCHANGED <<pc, batch, validator, overlapped, toolRequest, toolResponse,
                   invoked>>

\* loadFromUrl rejects: the catch block, then the timer or the next loop test
LoadRejects(error) ==
    /\ pc = "download"
    /\ download.pc = "loading"
    /\ LET caught == [download EXCEPT
                        !.loads[Len(download.loads)] =
                            [state |-> "rejected", error |-> error],
                        !.lastError = Some(AsError(error))]
       IN  download' =
             IF download.attempt < download.maxRetries
             THEN [caught EXCEPT !.pc = "backoff",
                                 !.waits = Append(@, BackoffDelay(download.attempt))]
             ELSE LoopTop([caught EXCEPT !.attempt = @ + 1])
    /\ UNCHANGED <<pc, batch, validator, overlapped, toolRequest, toolResponse,
                   invoked>>

\* the timer fires: attempt++ and the top of the loop
BackoffElapsed ==
    /\ pc = "download"
    /\ download.pc = "backoff"
    /\ now' = now + download.waits[Len(download.waits)]
    /\ download' = LoopTop([download EXCEPT !.attempt = @ + 1])
    /\ UNCHANGED <<pc, mode, sources, operation, options, concurrency,
                   onProgress, failure, startTime, i, results, completed,
                   promises, singles, issued, providerCalls, events, delays,
                   iterations, raised, returned, validator, overlapped,
                   toolRequest, toolResponse, invoked>>

SourceLists == {[k \in 1..n |-> SourceAt(k)] : n \in 0..MaxSources}

\* operation and options of a call; targetFormat is given to convert only
Requests ==
    {r \in [operation : Operations, options : OptionsSet] :
        r.options.targetFormat # None => r.operation = "convert"}

\* The calls that are explored, one factor varied at a time.  Lists shorter
\* than MaxSources are processed with every request, and with every raised
\* value for analyze; the longest lists with the requests that reach no
\* provider and with analyze, the provider raising DefaultThrown when it fails.
Explored(srcs, r, thrown) ==
    /\ thrown # DefaultThrown => r.operation = "analyze"
    /\ Len(srcs) = MaxSources =>
          /\ thrown = DefaultThrown
          /\ r.operation = "analyze" \/ ValidationError(r.operation, r.options) # None

Next ==
    \/ \E srcs \in SourceLists, r \in Requests, c \in Concurrencies,
          thrown \in ThrownValues :
          /\ Explored(srcs, r, thrown)
          /\ process(srcs, r.operation, r.options, c, thrown)
    \/ \E srcs \in SourceLists, r \in Requests, c \in Concurrencies,
          cb \in Callbacks, thrown \in ThrownValues :
          /\ Explored(srcs, r, thrown)
          /\ processWithProgress(srcs, r.operation, r.options, c, cb, thrown)
    \/ Dispatch
    \/ \E j \in 1..Len(sources) : Settle(j)
    \/ WindowSettled
    \/ Reject
    \/ Delay
    \/ Return
    \/ \E srcs \in CheckedLists : validateSources(srcs)
    \/ \E name \in RequestedNames, outcome \in HandlerOutcomes :
          CallTool(name, outcome)
    \/ \E maxRetries \in 0..MaxRetries : downloadWithRetry(maxRetries)
    \/ LoadResolves
    \/ \E error \in LoadErrors : LoadRejects(error)
    \/ BackoffElapsed

Spec == Init /\ [][Next]_vars

\* the event loop runs every ready continuation, timers fire, and every
\* provider call settles
FairSpec ==
    /\ Spec
    /\ WF_vars(Dispatch)
    /\ WF_vars(\E j \in 1..Len(sources) : Settle(j))
    /\ WF_vars(WindowSettled)
    /\ WF_vars(Reject)
    /\ WF_vars(Delay)
    /\ WF_vars(Return)

\* ------------------------------------- actions of overlapping invocations
single == <<pc, args, startTime, i, results, completed, promises, singles,
            issued, providerCalls, events, delays, iterations, raised, returned>>

EnterIn(r, md, srcs, c, cb) ==
    /\ frames[r].pc = "idle"
    /\ r = 2 => frames[1].pc # "idle"
    /\ frames' = [frames EXCEPT ![r] =
                    [pc |-> "loop", mode |-> md, sources |-> srcs,
                     concurrency |-> c, onProgress |-> cb, startTime |-> now,
                     i |-> 0,
                     promises |-> [j \in 1..Len(srcs) |-> NoPromise],
                     singles |-> [j \in 1..Len(srcs) |-> NoPromise],
                     events |-> <<>>, returned |-> None]]
    /\ locals' = [locals EXCEPT ![ActivationOf(r)] = NoLocals]
    /\ UNCHANGED <<frontend, single, now, validator>>

processIn(r, srcs, c) == EnterIn(r, "process", srcs, c, "absent")

processWithProgressIn(r, srcs, c, cb) ==
    EnterIn(r, "processWithProgress", srcs, c, cb)

DispatchIn(r) ==
    LET f == frames[r]
    IN  /\ f.pc = "loop"
        /\ f.i < Len(f.sources)
        /\ frames' = [frames EXCEPT ![r] =
              [f EXCEPT
                 !.promises = [j \in 1..Len(f.sources) |->
                     IF j \in BatchOf(f)
                     THEN MappedPromise(f.mode, OverlappedOperation,
                                        OverlappedOptions, now)
                     ELSE f.promises[j]],
                 !.singles = [j \in 1..Len(f.sources) |->
                     IF j \in BatchOf(f)
                     THEN SinglePromise(OverlappedOperation, OverlappedOptions, now)
                     ELSE f.singles[j]],
                 !.pc = "await"]]
        /\ UNCHANGED <<frontend, single, now, validator, locals>>

SettleIn(r, j) ==
    LET f == frames[r]
    IN  /\ f.pc = "await"
        /\ f.promises[j].state = "pending"
        /\ now' = now + 1
        /\ \E settled \in
               {Fulfilled(SingleResult(ProviderResult(f.sources[j], OverlappedOperation),
                                       f.promises[j].start, now + 1)),
                Rejected(DefaultThrown)} :
             IF f.mode = "process"
             THEN /\ frames' = [frames EXCEPT ![r] =
                      [f EXCEPT !.promises[j] = settled, !.singles[j] = settled]]
                  /\ UNCHANGED locals
             ELSE LET w == Wrapper(f.sources[j], settled,
                                   locals[ActivationOf(r)].completed,
                                   Len(f.sources), f.onProgress, FALSE, FALSE)
                  IN  /\ frames' = [frames EXCEPT ![r] =
                            [f EXCEPT !.promises[j] = w.promise,
                                      !.singles[j] = settled,
                                      !.events = @ \o w.emitted]]
                      /\ locals' = [locals EXCEPT
                            ![ActivationOf(r)].completed = w.completed]
        /\ UNCHANGED <<frontend, single, validator>>

WindowSettledIn(r) ==
    LET f == frames[r]
    IN  /\ f.pc = "await"
        /\ AwaitedOf(f) = "resolved"
        /\ locals' = [locals EXCEPT ![ActivationOf(r)].results = @ \o OutcomesOf(f)]
        /\ frames' = [frames EXCEPT ![r] =
              IF f.i + f.concurrency < Len(f.sources)
              THEN [f EXCEPT !.pc = "delay"]
              ELSE [f EXCEPT !.pc = "loop", !.i = NextIndex(f.i, f.concurrency)]]
        /\ UNCHANGED <<frontend, single, now, validator>>

DelayIn(r) ==
    LET f == frames[r]
    IN  /\ f.pc = "delay"
        /\ now' = now + InterWindowDelay
        /\ frames' = [frames EXCEPT ![r] =
              [f EXCEPT !.pc = "loop", !.i = NextIndex(f.i, f.concurrency)]]
        /\ UNCHANGED <<frontend, single, validator, locals>>

ReturnIn(r) ==
    LET f == frames[r]
    IN  /\ f.pc = "loop"
        /\ ~(f.i < Len(f.sources))
        /\ frames' = [frames EXCEPT ![r] =
              [f EXCEPT !.pc = "returned",
                        !.returned = Some(Summary(locals[ActivationOf(r)].results,
                                                  now - f.startTime))]]
        /\ UNCHANGED <<frontend, single, now, validator, locals>>

OverlappedNext ==
    \/ \E r \in Invocations :
          \E srcs \in OverlappedSources(r), c \in OverlappedConcurrencies(r) :
             processIn(r, srcs, c)
    \/ \E r \in Invocations :
          \E srcs \in OverlappedSources(r), c \in OverlappedConcurrencies(r) :
             processWithProgressIn(r, srcs, c, "returns")
    \/ \E r \in Invocations : DispatchIn(r)
    \/ \E r \in Invocations : \E j \in 1..Len(frames[r].sources) : SettleIn(r, j)
    \/ \E r \in Invocations : WindowSettledIn(r)
    \/ \E r \in Invocations : DelayIn(r)
    \/ \E r \in Invocations : ReturnIn(r)

OverlappedSpec == Init /\ [][OverlappedNext]_vars

\* ----------------------------------------------------------- vocabulary
Positions == 1..Len(sources)

Settled(j) == promises[j].state \in {"fulfilled", "rejected"}

Pending == {j \in Positions : promises[j].state = "pending"}

\* the window position j belongs to when the windows have size c
WindowOf(j, c) == (j - 1) \div c

HasReturned == returned # None

\* onProgress never raises in this run
NormalCallback == onProgress # "raises"

\* ---------------------------------------------------------------- C1
\* C1: for concurrency >= 1 the results of the returned summary (and the
\* collector at every moment) follow the input: results[k].source = sources[k]
\* for every k, and the summary has one outcome per source, whatever the
\* settlement order inside a window.
C1_OrderPreserved ==
    concurrency >= 1 =>
        /\ Len(results) <= Len(sources)
        /\ \A k \in 1..Len(results) : results[k].source = sources[k]
        /\ HasReturned =>
              /\ Len(returned[1].results) = Len(sources)
              /\ \A k \in Positions : returned[1].results[k].source = sources[k]

\* a call over three sources in windows of two has returned, and inside the
\* first window the second source settled before the first
C1_Witness ==
    /\ HasReturned
    /\ Len(sources) = 3
    /\ concurrency = 2
    /\ returned[1].results[1].success
    /\ returned[1].results[2].success
    /\ returned[1].results[2].processingTime < returned[1].results[1].processingTime

\* ---------------------------------------------------------------- C2
\* C2: for concurrency >= 1, at every point of a run the number of
\* processSingle calls issued and not yet settled is at most concurrency.
C2_BoundedInFlight ==
    concurrency >= 1 => Cardinality(Pending) <= concurrency

\* the bound is reached: two dispatches in flight with concurrency 2 and a
\* third source waiting
C2_Witness ==
    /\ concurrency = 2
    /\ Len(sources) = 3
    /\ Cardinality(Pending) = 2

\* ---------------------------------------------------------------- C3
\* C3: for concurrency >= 1 the windows are the consecutive blocks of
\* concurrency sources (the last may be smaller), and a source of a later
\* window is dispatched only when every source of every earlier window has
\* settled.
C3_WindowsInOrder ==
    concurrency >= 1 =>
        /\ pc \in {"await", "delay"} =>
              /\ i % concurrency = 0
              /\ Batch = {j \in Positions : WindowOf(j, concurrency) = i \div concurrency}
        /\ \A j, k \in Positions :
              (WindowOf(j, concurrency) < WindowOf(k, concurrency)
                 /\ promises[k].state # "none") => Settled(j)

\* sources [a,b,c] with concurrency 2: c is in flight
C3_Witness ==
    /\ Len(sources) = 3
    /\ concurrency = 2
    /\ promises[3].state = "pending"

\* ---------------------------------------------------------------- C4
\* C4: in every returned summary totalProcessed = results.length =
\* sources.length.
C4_TotalsMatchInput ==
    HasReturned =>
        /\ returned[1].totalProcessed = Len(returned[1].results)
        /\ returned[1].totalProcessed = Len(sources)

\* a summary over three sources, one of which failed
C4_Witness ==
    /\ HasReturned
    /\ Len(sources) = 3
    /\ returned[1].totalProcessed = 3
    /\ \E k \in 1..3 : ~returned[1].results[k].success

\* ---------------------------------------------------------------- C5
\* C5: a failing item (validation error, unsupported operation, provider
\* exception) never aborts the batch.  In process, and in processWithProgress
\* with a callback that returns, the call never raises; when it has returned,
\* every source has been dispatched exactly once in input order and every
\* source whose processSingle promise rejected is a Failure outcome at its own
\* position.
C5_FailureIsolated ==
    (mode = "process" \/ NormalCallback) =>
        /\ pc # "rejected"
        /\ (HasReturned /\ concurrency >= 1) =>
              /\ issued = [k \in Positions |-> k]
              /\ \A k \in Positions :
                    singles[k].state = "rejected" =>
                       /\ returned[1].results[k].source = sources[k]
                       /\ ~returned[1].results[k].success
                       /\ returned[1].results[k].error # None

\* process over [a,b,c] in windows of two returned although the provider raised
\* for a: b (same window) and c (next window) were processed
C5_Witness ==
    /\ HasReturned
    /\ mode = "process"
    /\ operation = "analyze"
    /\ Len(sources) = 3
    /\ concurrency = 2
    /\ singles[1].state = "rejected"
    /\ ~returned[1].results[1].success
    /\ returned[1].results[2].success
    /\ returned[1].results[3].success

\* ---------------------------------------------------------------- C6
\* nearest integer of 100 * k / n, a tie going up
IsRoundedPercentage(pct, k, n) ==
    /\ 2 * pct * n <= 200 * k + n
    /\ 200 * k + n < 2 * (pct + 1) * n

C7_Terminates ==
    (pc = "loop" /\ concurrency >= 1 /\ NormalCallback)
        ~> (HasReturned /\ issued = [k \in Positions |-> k])

\* a call over three sources, one per window, has returned after two delays
C7_Witness ==
    /\ HasReturned
    /\ Len(sources) = 3
    /\ concurrency = 1
    /\ delays = 2
    /\ issued = <<1, 2, 3>>

\* ---------------------------------------------------------------- C8
\* C8: whatever the sources, the operation, the options, the providers and
\* the onProgress callback do, the call never raises: it returns a summary.
C8_NeverRaises == pc # "rejected"

\* ---------------------------------------------------------------- C9
\* C9: in every returned summary successful is the number of outcomes with
\* success = true, failed the number with success = false, and
\* successful + failed = totalProcessed.
C9_CountsConsistent ==
    HasReturned =>
        LET r == returned[1]
        IN  /\ r.successful =
                 Cardinality({k \in 1..Len(r.results) : r.results[k].success = TRUE})
            /\ r.failed =
                 Cardinality({k \in 1..Len(r.results) : r.results[k].success = FALSE})
            /\ r.successful + r.failed = r.totalProcessed

\* a summary with two successes and one failure
C9_Witness ==
    /\ HasReturned
    /\ returned[1].successful = 2
    /\ returned[1].failed = 1

\* --------------------------------------------------------------- C10
\* a Success: the processSingle call of position j resolved, the outcome
\* carries that provider result and no error
IsSuccess(o, j) ==
    /\ o.success = TRUE
    /\ singles[j].state = "fulfilled"
    /\ o.result = Some(singles[j].value.result)
    /\ o.error = None

\* a Failure: an error message, no result, no duration
IsFailure(o) ==
    /\ o.success = FALSE
    /\ o.error # None
    /\ o.result = None
    /\ o.processingTime = 0

\* C10: every outcome in results is exactly one of Success and Failure, never
\* both and never neither.  A Success carries the provider's result and no
\* error; a Failure carries an error message, no result and processingTime 0.
C10_OutcomeShape ==
    /\ \A k \in 1..Len(results) :
          /\ IsSuccess(results[k], k) \/ IsFailure(results[k])
          /\ ~(IsSuccess(results[k], k) /\ IsFailure(results[k]))
    /\ HasReturned => returned[1].results = results

\* a summary of processWithProgress holding a Success with a positive duration
\* and a Failure
C10_Witness ==
    /\ HasReturned
    /\ mode = "processWithProgress"
    /\ \E k \in 1..Len(results) : results[k].success /\ results[k].processingTime > 0
    /\ \E k \in 1..Len(results) : ~results[k].success /\ singles[k].state = "rejected"

\* --------------------------------------------------------------- C11
\* C11: a call with an empty sources list returns a summary whose successRate
\* is 0.
C11_EmptyRateZero ==
    (HasReturned /\ Len(sources) = 0) => returned[1].summary.successRate = 0

\* --------------------------------------------------------------- C12
\* C12: when totalProcessed > 0 the returned successRate is an integer in
\* 0..100 and is the nearest integer of successful / totalProcessed * 100
\* (3 successes out of 4 give 75).
C12_RateRounded ==
    /\ MathRoundRatio(3 * 100, 4) = 75
    /\ (HasReturned /\ returned[1].totalProcessed > 0) =>
          LET r == returned[1]
          IN  /\ r.summary.successRate \in 0..100
              /\ IsRoundedPercentage(r.summary.successRate, r.successful,
                                     r.totalProcessed)

\* two successes out of three: 66.67 is rounded up to 67
C12_Witness ==
    /\ HasReturned
    /\ returned[1].totalProcessed = 3
    /\ returned[1].successful = 2
    /\ returned[1].summary.successRate = 67

\* --------------------------------------------------------------- C13
\* C13: the returned averageTime is the nearest integer of the sum of
\* processingTime over the outcomes with success = true divided by
\* successful; the outcomes that failed are not in the divisor and add
\* nothing to the sum; it is 0 when successful = 0.
C13_AverageOverSuccesses ==
    HasReturned =>
        LET r     == returned[1]
            ok    == {k \in 1..Len(r.results) : r.results[k].success}
            times == [k \in 1..Len(r.results) |-> r.results[k].processingTime]
            total == SumOf(times, ok)
            n     == r.successful
            avg   == r.summary.averageTime
        IN  /\ \A k \in 1..Len(r.results) :
                  ~r.results[k].success => r.results[k].processingTime = 0
            /\ IF n = 0 THEN avg = 0
               ELSE /\ 2 * avg * n <= 2 * total + n
                    /\ 2 * total + n < 2 * (avg + 1) * n

\* two successes that took 1 and 2 and one failure: the average 1.5 over the
\* two successes is rounded to 2
C13_Witness ==
    /\ HasReturned
    /\ returned[1].successful = 2
    /\ returned[1].failed = 1
    /\ \E j, k \in 1..3 :
          /\ returned[1].results[j].success /\ returned[1].results[j].processingTime = 1
          /\ returned[1].results[k].success /\ returned[1].results[k].processingTime = 2
    /\ returned[1].summary.averageTime = 2

\* --------------------------------------------------------------- C14
\* C14: when operation is convert and options has no targetFormat, no
\* provider is ever called, every outcome collected is the Failure
\* 'targetFormat is required for convert operation' of its own source, and
\* the returned summary holds one such outcome per source.
C14_ConvertNeedsTarget ==
    (operation = "convert" /\ options.targetFormat = None) =>
        /\ providerCalls = <<>>
        /\ \A k \in 1..Len(results) :
              /\ IsFailure(results[k])
              /\ results[k].source = sources[k]
              /\ results[k].error =
                    Some("targetFormat is required for convert operation")
        /\ HasReturned =>
              /\ returned[1].results = results
              /\ Len(results) = Len(sources)
              /\ returned[1].failed = Len(sources)

\* a convert call without targetFormat over three sources has returned three
\* failures
C14_Witness ==
    /\ HasReturned
    /\ operation = "convert"
    /\ options.targetFormat = None
    /\ Len(sources) = 3
    /\ returned[1].failed = 3
    /\ providerCalls = <<>>

\* --------------------------------------------------------------- C15
\* C15: when operation is resize, a value outside analyze, compress, convert
\* and extract_colors, no provider is ever called, every outcome collected is
\* the Failure 'Unsupported operation: resize' of its own source, the call
\* (made without a callback or with one that returns) does not raise, and
\* the returned summary holds one such outcome per source.
C15_UnsupportedOperation ==
    operation = "resize" =>
        /\ providerCalls = <<>>
        /\ \A k \in 1..Len(results) :
              /\ IsFailure(results[k])
              /\ results[k].source = sources[k]
              /\ results[k].error = Some("Unsupported operation: resize")
        /\ (mode = "process" \/ NormalCallback) => pc # "rejected"
        /\ HasReturned =>
              /\ returned[1].results = results
              /\ Len(results) = Len(sources)
              /\ returned[1].failed = Len(sources)

\* a resize call over three sources has returned three failures
C15_Witness ==
    /\ HasReturned
    /\ operation = "resize"
    /\ Len(sources) = 3
    /\ returned[1].failed = 3
    /\ returned[1].results[3].error = Some("Unsupported operation: resize")

\* --------------------------------------------------------------- C16
\* the outcomes process forms from the way the processSingle calls settled
ViaProcess ==
    [k \in Positions |-> SettledOutcome(sources[k], singles[k])]

\* the outcomes processWithProgress forms from the same settlements, its
\* callback returning
ViaProgress ==
    [k \in Positions |->
        Wrapper(sources[k], singles[k], k - 1, Len(sources), onProgress,
                FALSE, FALSE).promise.value]

\* C16: apart from progress notification the two entry points agree: for the
\* same arguments and the same behaviour of every provider call, the results
\* of the returned summary (and with them totalProcessed, successful, failed
\* and successRate) are the ones process returns and the ones
\* processWithProgress returns.
C16_EntryPointsAgree ==
    (HasReturned /\ NormalCallback) =>
        /\ returned[1].results = ViaProcess
        /\ returned[1].results = ViaProgress

\* --------------------------------------------------------------- C17
HasValidated == validation # None

InValid(e) == \E k \in 1..Len(validation[1].valid) : validation[1].valid[k] = e

InInvalid(e) == \E k \in 1..Len(validation[1].invalid) : validation[1].invalid[k] = e

Lowered(cs) == [k \in 1..Len(cs) |-> LowerOf(cs[k])]

EndsWith(cs, suffix) ==
    /\ Len(cs) >= Len(suffix)
    /\ SubSeq(cs, Len(cs) - Len(suffix) + 1, Len(cs)) = suffix

\* the rules of the claim, in priority order
RuleValid(cs) ==
    IF StartsWith(cs, Http) \/ StartsWith(cs, Https) THEN UrlParses(cs)
    ELSE IF StartsWith(cs, DataImage) THEN TRUE
    ELSE /\ Includes(cs, ".")
         /\ \E ext \in ImageExtensions : EndsWith(Lowered(cs), <<".">> \o ext)

\* C17: validateSources puts a string in valid exactly when (1) it starts
\* with http:// or https:// and parses as a URL, whatever its extension, or
\* (2) otherwise starts with data:image/, or (3) otherwise contains "." and
\* ends, in any letter case, with one of .jpg .jpeg .png .gif .bmp .webp
\* .avif .tiff; every other string is put in invalid.  'https://a.b/x.jpg',
\* 'data:image/png;base64,AAAA' and 'photo.png' are valid, 'not a url' and
\* 'photo.txt' are invalid.
C17_Classification ==
    HasValidated =>
        \A k \in 1..Len(checked) :
            LET e == checked[k]
            IN  /\ e.type = "string" =>
                      /\ InValid(e) <=> RuleValid(e.chars)
                      /\ InInvalid(e) <=> ~RuleValid(e.chars)
                /\ e \in {HttpsUrlJpg, DataImagePng, PhotoPng} => InValid(e)
                /\ e \in {NotAUrl, PhotoTxt} => InInvalid(e)

\* a URL, a file with a foreign extension and a data URI have been classified
C17_Witness ==
    /\ HasValidated
    /\ checked = <<HttpsUrlJpg, PhotoTxt, DataImagePng>>
    /\ validation[1].valid = <<HttpsUrlJpg, DataImagePng>>
    /\ validation[1].invalid = <<PhotoTxt>>

\* --------------------------------------------------------------- C18
\* C18: validateSources does not raise and returns a partition of its input
\* that preserves order: every element is in exactly one of valid and
\* invalid, the lengths add up to the length of the input, each list is the
\* input restricted to its elements, and an element whose check raises is
\* in invalid.
C18_OrderedPartition ==
    /\ pc = "validated" => HasValidated
    /\ HasValidated =>
          /\ Len(validation[1].valid) + Len(validation[1].invalid) = Len(checked)
          /\ \A k \in 1..Len(checked) :
                /\ InValid(checked[k]) # InInvalid(checked[k])
                /\ isValidSource(checked[k]) = "throws" => InInvalid(checked[k])
          /\ validation[1].valid = SelectSeq(checked, InValid)
          /\ validation[1].invalid = SelectSeq(checked, InInvalid)

\* an array whose first element fails the rules, whose second passes and
\* whose third is not a string
C18_Witness ==
    /\ HasValidated
    /\ checked = <<PhotoTxt, PhotoPng, NotAString>>
    /\ validation[1].valid = <<PhotoPng>>
    /\ validation[1].invalid = <<PhotoTxt, NotAString>>

\* --------------------------------------------------------------- C19
\* C19: two invocations that overlap on one BatchProcessor do not share the
\* collector or the counter.  Under every interleaving, the summary each one
\* returns holds exactly the outcomes of its own sources in its own input
\* order, each outcome formed from the settlement of its own provider call,
\* and the progress events of each invocation carry completed = 1, 2, ...
\* over its own settled items and its own total.
C19_InvocationsIsolated ==
    \A r \in Invocations :
        LET f == frames[r]
            n == Len(f.sources)
        IN  /\ f.returned # None =>
                  /\ Len(f.returned[1].results) = n
                  /\ f.returned[1].totalProcessed = n
                  /\ \A k \in 1..n :
                        LET o == f.returned[1].results[k]
                        IN  /\ o.source = f.sources[k]
                            /\ o.success <=> f.singles[k].state = "fulfilled"
                            /\ o.success =>
                                  o.result = Some(f.singles[k].value.result)
            /\ f.mode = "processWithProgress" =>
                  /\ Len(f.events) =
                        Cardinality({j \in 1..n :
                           f.singles[j].state \in {"fulfilled", "rejected"}})
                  /\ \A k \in 1..Len(f.events) :
                        /\ f.events[k].completed = k
                        /\ f.events[k].total = n
                  /\ f.returned # None => Len(f.events) = n

\* two processWithProgress calls over two sources each have returned; the
\* second was made after the first settlement of the first and before the
\* first returned
C19_Witness ==
    /\ frames[1].returned # None
    /\ frames[2].returned # None
    /\ frames[1].mode = "processWithProgress"
    /\ frames[2].mode = "processWithProgress"
    /\ Len(frames[1].sources) = 2
    /\ Len(frames[2].sources) = 2
    /\ frames[1].startTime < frames[2].startTime
    /\ frames[2].startTime <
          frames[1].startTime + frames[1].returned[1].summary.totalTime
    /\ Len(frames[1].events) = 2
    /\ Len(frames[2].events) = 2

\* --------------------------------------------------------------- C20
\* C20: for concurrency >= 1 the collector never holds a part of a window:
\* at every point of a run the number of outcomes in results is a multiple
\* of concurrency or is sources.length, and every dispatch of the window of
\* an outcome that is in results has settled.
C20_WholeWindows ==
    concurrency >= 1 =>
        /\ Len(results) % concurrency = 0 \/ Len(results) = Len(sources)
        /\ \A k \in 1..Len(results) :
              \A j \in Positions :
                 WindowOf(j, concurrency) = WindowOf(k, concurrency) => Settled(j)

\* the first window of two is half settled, the second source before the
\* first, and nothing has been appended
C20_Witness ==
    /\ Len(sources) = 3
    /\ concurrency = 2
    /\ Settled(2)
    /\ promises[1].state = "pending"
    /\ results = <<>>

\* --------------------------------------------------------------- C21
\* the number of windows of n sources taken c at a time
WindowCount(n, c) == (n + c - 1) \div c

\* C21: for concurrency >= 1 the inter-window timer is started once after
\* each window that is not the last and never after the last, whatever the
\* window size and whatever succeeded or failed: at every point the number
\* of timers started is the number of appended windows that are not the
\* last, a call that has returned over N >= 1 sources has taken
\* ceil(N / C) - 1 delays, and a call over no source has taken none.
C21_DelaysBetweenWindows ==
    /\ Len(sources) = 0 => delays = 0
    /\ (concurrency >= 1 /\ Len(sources) >= 1) =>
          /\ delays = IF Len(results) = Len(sources)
                      THEN WindowCount(Len(sources), concurrency) - 1
                      ELSE Len(results) \div concurrency
          /\ pc = "delay" => Len(results) < Len(sources)
          /\ HasReturned =>
                delays = WindowCount(Len(sources), concurrency) - 1

\* three sources, one per window, the first of which failed: two delays
C21_Witness ==
    /\ HasReturned
    /\ Len(sources) = 3
    /\ concurrency = 1
    /\ ~returned[1].results[1].success
    /\ returned[1].results[2].success
    /\ delays = 2

\* --------------------------------------------------------------- C22
\* C22: whatever integer is passed as concurrency, 0 and negative values
\* included, the executor behaves as if the bound were at least 1: every
\* window that is dispatched holds at least one source, so the loop is
\* entered at most once per source.
C22_WindowsNonEmpty ==
    /\ pc = "await" => Batch # {}
    /\ iterations <= Len(sources)

\* --------------------------------------------------------------- C23
\* the operation is supported and, for convert, targetFormat is present
Dispatchable ==
    \/ operation \in {"analyze", "compress", "extract_colors"}
    \/ operation = "convert" /\ options.targetFormat # None

\* the provider the claim assigns to an operation
SelectedProvider(op) ==
    CASE op = "analyze"        -> "imageAnalyzer.analyze"
      [] op = "compress"       -> "imageCompressor.compress"
      [] op = "convert"        -> "formatConverter.convert"
      [] op = "extract_colors" -> "colorExtractor.extract"

\* C23: no source is dispatched twice; when the operation is supported (and
\* targetFormat is present for convert) each dispatch makes one call, to the
\* provider the operation selects, with its source (and for convert with
\* targetFormat and the options); a failed item is not retried, so when a
\* call with concurrency >= 1 has returned exactly one provider call has
\* been made for every source.
C23_OneCallPerSource ==
    /\ \A a, b \in 1..Len(issued) : a # b => issued[a] # issued[b]
    /\ Dispatchable =>
          /\ Len(providerCalls) = Len(issued)
          /\ \A k \in 1..Len(providerCalls) :
                /\ providerCalls[k].position = issued[k]
                /\ providerCalls[k].source = sources[issued[k]]
                /\ providerCalls[k].provider = SelectedProvider(operation)
                /\ operation = "convert" =>
                      /\ providerCalls[k].targetFormat = options.targetFormat
                      /\ providerCalls[k].options = options
          /\ (HasReturned /\ concurrency >= 1) =>
                \A j \in Positions :
                   Cardinality({k \in 1..Len(providerCalls) :
                                  providerCalls[k].position = j}) = 1

\* three sources in windows of two, the first of which failed: three calls
C23_Witness ==
    /\ HasReturned
    /\ Len(sources) = 3
    /\ concurrency = 2
    /\ operation = "analyze"
    /\ ~returned[1].results[1].success
    /\ Len(providerCalls) = 3

\* --------------------------------------------------------------- C24
\* the text the claim assigns to a raised value: its message when it has a
\* non-empty one, the generic fallback otherwise
ExpectedText(v) ==
    IF v.message # None /\ v.message[1] # "" THEN v.message[1] ELSE "Unknown error"

\* C24: when a provider call rejected, the Failure outcome of its source
\* carries the provider's error text when there is one and 'Unknown error'
\* otherwise, in process and in processWithProgress alike, for an Error with
\* text, an Error with empty text and a non-Error value with or without a
\* message field.
C24_ErrorText ==
    (Dispatchable /\ NormalCallback) =>
        \A k \in 1..Len(results) :
            singles[k].state = "rejected" =>
               results[k].error = Some(ExpectedText(singles[k].reason))

\* --------------------------------------------------------------- C25
\* C25: for concurrency >= 1 the dispatches are issued in source order (and
\* with them the provider calls), and whatever order the dispatches of a
\* window settle in, its outcomes are appended in source order: the outcome
\* at position k of results is the one of the dispatch of source k.
C25_SourceOrder ==
    concurrency >= 1 =>
        /\ \A k \in 1..Len(issued) : issued[k] = k
        /\ \A k \in 1..(Len(providerCalls) - 1) :
              providerCalls[k].position < providerCalls[k + 1].position
        /\ \A k \in 1..Len(results) :
              /\ results[k].source = sources[k]
              /\ results[k].success =>
                    /\ singles[k].state = "fulfilled"
                    /\ results[k].result = Some(singles[k].value.result)
                    /\ results[k].processingTime = singles[k].value.processingTime
              /\ singles[k].state = "rejected" => ~results[k].success

\* the first window of two has been appended and the timer is running: the
\* second source settled before the first, and the outcomes are in source
\* order
C25_Witness ==
    /\ pc = "delay"
    /\ Len(sources) = 3
    /\ concurrency = 2
    /\ Len(results) = 2
    /\ results[1].success
    /\ results[2].success
    /\ results[2].processingTime < results[1].processingTime
    /\ issued = <<1, 2>>

\* --------------------------------------------------------------- C26
\* C26: the engine leaves its inputs unchanged.  From the call on, no step
\* changes the caller's sources sequence or the options map, every provider
\* call is handed the source at its position and the options map as the
\* caller gave it, and of the options the engine itself passes on only
\* targetFormat, to the converter.
C26_InputsUnchanged ==
    /\ [](\A k \in 1..Len(providerCalls) :
            /\ providerCalls[k].source = sources[providerCalls[k].position]
            /\ providerCalls[k].options = options
            /\ providerCalls[k].targetFormat =
                  IF operation = "convert" THEN options.targetFormat ELSE None)
    /\ [][pc # "idle" => (sources' = sources /\ options' = options)]_vars

\* a convert call to webp over two sources has returned
C26_Witness ==
    /\ HasReturned
    /\ operation = "convert"
    /\ options.targetFormat = Some("webp")
    /\ sources = <<"a.png", "b.png">>
    /\ Len(providerCalls) = 2
    /\ providerCalls[2].options = options

\* --------------------------------------------------------------- C27
\* C27: the totalTime of a returned summary spans the whole call, every
\* inter-window delay included: it is never negative, for concurrency >= 1
\* it is at least the fixed delay times the number of windows less one, and
\* it is at least the processingTime of every Success outcome.
C27_TotalTimeSpans ==
    HasReturned =>
        LET r == returned[1]
        IN  /\ r.summary.totalTime >= 0
            /\ r.summary.totalTime = now - startTime
            /\ (concurrency >= 1 /\ Len(sources) >= 1) =>
                  r.summary.totalTime >=
                     InterWindowDelay * (WindowCount(Len(sources), concurrency) - 1)
            /\ \A k \in 1..Len(r.results) :
                  r.results[k].success =>
                     r.summary.totalTime >= r.results[k].processingTime

\* three sources, one per window: two delays of 100 and three settlements
C27_Witness ==
    /\ HasReturned
    /\ Len(sources) = 3
    /\ concurrency = 1
    /\ returned[1].results[3].success
    /\ returned[1].results[3].processingTime = 1
    /\ returned[1].summary.totalTime = 2 * InterWindowDelay + 3

\* --------------------------------------------------------------- C28
\* the dispatches of the run whose settlement the engine has observed
SettledDispatches == {j \in Positions : Settled(j)}

\* a call of processWithProgress with a callback that returns
Notifying ==
    mode = "processWithProgress" /\ onProgress = "returns" /\ concurrency >= 1

C29_UnknownToolNotFound ==
    (toolResponse # None /\ toolRequest[1] \notin
        {"analyze_image", "compress_image", "convert_format", "extract_colors",
         "batch_process"}) =>
        /\ toolResponse[1].type = "McpError"
        /\ toolResponse[1].code = "MethodNotFound"
        /\ invoked = <<>>

\* --------------------------------------------------------------- C30
Downloading == pc = "download" /\ download.maxRetries >= 1

\* the message of the value loadFromUrl rejected with at attempt k
LoadErrorText(k) == download.loads[k].error.text

\* C30: for maxRetries >= 1, downloadWithRetry calls loadFromUrl at most
\* maxRetries times and one call at a time, every call before the last one
\* made having been rejected; it returns the buffer of the first call that
\* resolves, nothing being called after it; after the rejected call k <
\* maxRetries it waits 2^k seconds before call k + 1, and it does not wait
\* after call maxRetries; when all maxRetries calls are rejected it raises
\* 'Failed to download after <maxRetries> attempts: <message of the last
\* error>'.
C30_RetryWithBackoff ==
    Downloading =>
        LET d == download
            n == Len(d.loads)
        IN  /\ n <= d.maxRetries
            /\ \A k \in 1..(n - 1) : d.loads[k].state = "rejected"
            /\ \A k \in 1..Len(d.waits) :
                  /\ d.waits[k] = Pow2(k) * 1000
                  /\ k < d.maxRetries
                  /\ d.loads[k].state = "rejected"
            /\ Len(d.waits) <= n
            /\ n <= Len(d.waits) + 1
            /\ (n >= 1 /\ d.loads[n].state = "resolved") =>
                  /\ d.pc = "returned"
                  /\ d.outcome = Some([returned |-> "Buffer", attempt |-> n])
                  /\ Len(d.waits) = n - 1
            /\ d.pc = "backoff" => d.loads[n].state = "rejected" /\ Len(d.waits) = n
            /\ d.pc = "raised" =>
                  /\ n = d.maxRetries
                  /\ d.loads[n].state = "rejected"
                  /\ Len(d.waits) = d.maxRetries - 1
                  /\ d.outcome[1].raised = "Error"
                  /\ d.outcome[1].message =
                        "Failed to download after " \o ToString(d.maxRetries)
                        \o " attempts: " \o LoadErrorText(n)
            /\ d.pc \in {"loading", "backoff"} => d.outcome = None

\* three attempts have failed with different errors: two waits, of 2 and 4
\* seconds, and the last error is quoted
C30_Witness ==
    /\ pc = "download"
    /\ download.pc = "raised"
    /\ download.maxRetries = 3
    /\ download.waits = <<2000, 4000>>
    /\ LoadErrorText(1) = "ECONNRESET"
    /\ LoadErrorText(3) = "socket hang up"
    /\ download.outcome[1].message =
          "Failed to download after 3 attempts: socket hang up"

====
